---------------------------- MODULE Spec2Model ----------------------------
(***************************************************************************)
(* Model of the loss, training-loop and dataset code of Real_CLIP_Adapter: *)
(*   src/weighted_loss/allmodel.py   GatherLayer, gather_features,         *)
(*                                   ClipLoss, CLIPWeightedLOSS.forward    *)
(*   src/LM/LMmodel.py               contrastive_loss, clip_loss,          *)
(*                                   FlickrDataset, CLIPMaskDataset        *)
(*   src/Vision/masked_modeling.py   masked_modeling                       *)
(*                                                                         *)
(* Tensors are functions over 0-based index ranges, as in the source.      *)
(* A feature vector is modelled with embedding dimension 1 (an integer),   *)
(* so `a @ b.T` is the outer product of two integer vectors.               *)
(* Values that only the pretrained networks determine (embeddings, the     *)
(* reconstruction, the incoming gradients) are inputs drawn from small     *)
(* sets.  F.cross_entropy is kept as a term over its two arguments.        *)
(***************************************************************************)
EXTENDS Integers, Sequences, FiniteSets, TLC

VARIABLES
    criterion,    \* ClipLoss module state of the single-process specification
    call,         \* inputs and results of the latest loss call of the process
    world_size,   \* dist.get_world_size() of the process group
    worker,       \* per rank: program counter, ClipLoss module and step locals
    coll,         \* per collective of the running step: the tensors posted so far
    args,         \* arguments of the CLIPWeightedLOSS.forward call
    nets,         \* what the mask generator and the networks return in that call
    output,       \* the dictionary returned by CLIPWeightedLOSS.forward
    cfg,          \* masked_modeling: epochs, len(trainset), len(valset), num_steps
    train,        \* masked_modeling: program counter, epoch, idx, model mode
    batch,        \* masked_modeling: img, mask and img_rec of the current batch
    loss,         \* masked_modeling: loss of the current batch
    optimizer,    \* state of the gradients and number of optimizer.step calls
    lr_scheduler, \* last num_updates given to step_update and number of calls
    meters,       \* loss_meter and val_loss_meter
    log,          \* the lines logged and printed by the run so far
    ckpts,        \* the checkpoints written so far
    ops,          \* the calls made so far for the current batch
    dataset,      \* the FlickrDataset or CLIPMaskDataset object
    given,        \* what the pending dataset call reads: file lines, tokens, draws
    data          \* what the latest dataset call returned

clipVars == <<criterion, call>>
distVars == <<world_size, worker, coll>>
fwdVars == <<args, nets, output>>
trainVars == <<cfg, train, batch, loss, optimizer, lr_scheduler, meters, log, ckpts, ops>>
dataVars == <<dataset, given, data>>
vars == <<criterion, call, world_size, worker, coll, args, nets, output, cfg, train, batch, loss, optimizer, lr_scheduler, meters, log, ckpts, ops, dataset, given, data>>

(***************************************************************************)
(* Bounds                                                                  *)
(***************************************************************************)
MaxBatch == 2          \* largest local batch size N of a forward call
MaxDevices == 2        \* number of devices a module may be called on
MaxFeat == 2           \* feature values are drawn from 1..MaxFeat
MaxWorld == 2          \* largest world size of the process group
PatchSize == 2         \* pixels per side of a model patch (16 in the source)
GridSize == 2          \* model patches per side of an image (224 / 16 in the source)
SeqLen == 2            \* tokens per text
MaxEpochs == 10        \* largest number of epochs of a training run
MaxIters == 2          \* largest number of batches of the train and validation sets

None == [op |-> "None"]
ValueError == [op |-> "raise", error |-> "ValueError"]
IndexError == [op |-> "raise", error |-> "IndexError"]
NoPosts == [k \in {} |-> None]
NoColl == [c \in {"ag_image", "ag_text", "ar_image", "ar_text"} |-> NoPosts]
Devices == 0..(MaxDevices - 1)

\* the variables of the datasets while no dataset exists
NoData ==
    /\ dataset = None
    /\ given = None
    /\ data = None

\* the variables of masked_modeling while no training run exists
NoTraining ==
    /\ cfg = None
    /\ train = None
    /\ batch = None
    /\ loss = None
    /\ optimizer = None
    /\ lr_scheduler = None
    /\ meters = None
    /\ log = << >>
    /\ ckpts = {}
    /\ ops = << >>

FeatVals == 1..MaxFeat
Scales == {2}
BatchSizes == 1..MaxBatch

Features(n) == [0..(n - 1) -> FeatVals]

(***************************************************************************)
(* Tensor helpers                                                          *)
(***************************************************************************)
\* torch.arange(n)
arange(n) == [i \in 0..(n - 1) |-> i]

\* len(t), t.shape[0]
Len0(t) == Cardinality(DOMAIN t)

\* scale * a @ b.T for embedding dimension 1
MatMulT(scale, a, b) == [i \in DOMAIN a |-> [j \in DOMAIN b |-> scale * a[i] * b[j]]]

\* m.t() of a matrix with at least one row
Transpose(m) ==
    LET rows == DOMAIN m
        cols == DOMAIN m[0]
    IN  [j \in cols |-> [i \in rows |-> m[i][j]]]

\* F.cross_entropy(input, target): raises when the batch sizes differ or a
\* target is not a column index; otherwise the value is the term itself.
cross_entropy(input, target) ==
    IF DOMAIN input # DOMAIN target
        THEN ValueError
    ELSE IF \E i \in DOMAIN target : target[i] \notin DOMAIN input[i]
        THEN IndexError
    ELSE [op |-> "cross_entropy", input |-> input, target |-> target]

IsError(v) == v.op = "raise"

\* (a + b) / 2 of two cross-entropy values
Mean2(a, b) ==
    IF IsError(a) THEN a
    ELSE IF IsError(b) THEN b
    ELSE [op |-> "half_sum", a |-> a, b |-> b]

(***************************************************************************)
(* ClipLoss  (src/weighted_loss/allmodel.py)                               *)
(***************************************************************************)
NoLabels == [d \in {} |-> None]

\* ClipLoss.__init__
ClipLoss_init(cache, rk, ws) ==
    [cache_labels |-> cache, rank |-> rk, world_size |-> ws,
     prev_num_logits |-> 0, labels |-> NoLabels]

\* logits_per_image of ClipLoss.forward
LogitsPerImage(self, image_features, text_features, logit_scale, all_text_features) ==
    IF self.world_size > 1
        THEN MatMulT(logit_scale, image_features, all_text_features)
        ELSE MatMulT(logit_scale, image_features, text_features)

\* logits_per_text of ClipLoss.forward
LogitsPerText(self, image_features, text_features, logit_scale, all_image_features) ==
    IF self.world_size > 1
        THEN MatMulT(logit_scale, text_features, all_image_features)
        ELSE MatMulT(logit_scale, text_features, image_features)

\* the freshly computed ground truth of ClipLoss.forward
FreshLabels(self, num_logits) ==
    IF self.world_size > 1
        THEN [i \in 0..(num_logits - 1) |-> arange(num_logits)[i] + num_logits * self.rank]
        ELSE arange(num_logits)

\* "calculated ground-truth and cache if enabled": the labels of this call
\* and the module state after it
GroundTruth(self, num_logits, device) ==
    IF self.prev_num_logits # num_logits \/ device \notin DOMAIN self.labels
        THEN LET labels == FreshLabels(self, num_logits)
             IN  [labels |-> labels,
                  self |-> IF self.cache_labels
                              THEN [self EXCEPT
                                      !.labels = [d \in (DOMAIN self.labels) \cup {device} |->
                                                     IF d = device THEN labels ELSE self.labels[d]],
                                      !.prev_num_logits = num_logits]
                              ELSE self]
        ELSE [labels |-> self.labels[device], self |-> self]

\* ClipLoss.forward; the gathered features are only read when world_size > 1
ClipLoss_forward(self, device, image_features, text_features, logit_scale, all_image_features, all_text_features) ==
    LET logits_per_image == LogitsPerImage(self, image_features, text_features,
                                           logit_scale, all_text_features)
        logits_per_text == LogitsPerText(self, image_features, text_features,
                                         logit_scale, all_image_features)
        num_logits == Len0(logits_per_image)
        gt == GroundTruth(self, num_logits, device)
        total_loss == Mean2(cross_entropy(logits_per_image, gt.labels),
                            cross_entropy(logits_per_text, gt.labels))
    IN  [op |-> "forward",
         self |-> gt.self,
         logit_scale |-> logit_scale,
         device |-> device,
         num_logits |-> num_logits,
         labels |-> gt.labels,
         logits_per_image |-> logits_per_image,
         logits_per_text |-> logits_per_text,
         total_loss |-> total_loss]

(***************************************************************************)
(* contrastive_loss / clip_loss  (src/LM/LMmodel.py)                       *)
(***************************************************************************)
contrastive_loss(logits) == cross_entropy(logits, arange(Len0(logits)))

clip_loss(similarity) ==
    LET caption_loss == contrastive_loss(similarity)
        image_loss == contrastive_loss(Transpose(similarity))
    IN  [op |-> "clip_loss",
         similarity |-> similarity,
         caption_loss |-> caption_loss,
         image_loss |-> image_loss,
         loss |-> Mean2(caption_loss, image_loss)]

(***************************************************************************)
(* Single-process specification: one ClipLoss module with world_size 1     *)
(* that is called repeatedly, and the LMmodel loss.                        *)
(***************************************************************************)
InitClip ==
    /\ \E cache \in BOOLEAN : criterion = ClipLoss_init(cache, 0, 1)
    /\ call = None
    /\ world_size = 1
    /\ worker = None
    /\ coll = NoColl
    /\ args = None
    /\ nets = None
    /\ output = None
    /\ NoTraining
    /\ NoData

\* criterion(image_features, text_features, logit_scale) on some device
Forward ==
    \E device \in Devices, n \in BatchSizes, logit_scale \in Scales :
      \E image_features \in Features(n), text_features \in Features(n) :
        LET r == ClipLoss_forward(criterion, device, image_features, text_features,
                                  logit_scale, image_features, text_features)
        IN  /\ criterion' = r.self
            /\ call' = [r EXCEPT !.self = criterion]
            /\ UNCHANGED <<distVars, fwdVars, trainVars, dataVars>>

\* CLIPTextOnly.forward: logits_per_text = text_embeds0 @ text_embeds1.t() * logit_scale
\* followed by clip_loss(logits_per_text)
ClipLossLM ==
    \E n \in BatchSizes, logit_scale \in Scales :
      \E text_embeds0 \in Features(n), text_embeds1 \in Features(n) :
        LET similarity == MatMulT(logit_scale, text_embeds0, text_embeds1)
        IN  /\ call' = clip_loss(similarity)
            /\ UNCHANGED <<criterion, distVars, fwdVars, trainVars, dataVars>>

NextClip == Forward \/ ClipLossLM

SpecClip == InitClip /\ [][NextClip]_vars


(***************************************************************************)
(* GatherLayer and gather_features  (src/weighted_loss/allmodel.py)        *)
(* One process per rank.  A collective blocks its caller until every rank  *)
(* has entered it, so each GatherLayer method is a call step followed by a *)
(* return step.                                                            *)
(***************************************************************************)
Ranks == 0..(world_size - 1)
Which == {"image", "text"}

RECURSIVE Pow2(_)
Pow2(n) == IF n = 0 THEN 1 ELSE 2 * Pow2(n - 1)

\* torch.cat of a tuple of equally long tensors along dimension 0
cat(tensors) ==
    LET b == Len0(tensors[0])
    IN  [j \in 0..(Len0(tensors) * b - 1) |-> tensors[j \div b][j % b]]

\* dist.all_gather(output, x): slot k of the output list receives the tensor
\* that the process of rank k passed as x
all_gather(posted) == [k \in DOMAIN posted |-> posted[k]]

RECURSIVE SumOver(_, _, _, _)
SumOver(posted, ranks, s, i) ==
    IF ranks = {} THEN 0
    ELSE LET k == CHOOSE x \in ranks : TRUE
         IN  posted[k][s][i] + SumOver(posted, ranks \ {k}, s, i)

\* dist.all_reduce(t) with the default SUM: every process ends with the
\* elementwise sum of the tensors of all processes
all_reduce(posted) ==
    LET t == posted[CHOOSE k \in DOMAIN posted : TRUE]
    IN  [s \in DOMAIN t |-> [i \in DOMAIN t[s] |-> SumOver(posted, DOMAIN posted, s, i)]]

\* returns the zero-initialised output list without the gathered tensors
GatherLayer_forward_ungathered(posted) ==
    [k \in DOMAIN posted |-> [i \in DOMAIN posted[k] |-> 0]]

\* GatherLayer.forward after the collective: tuple(output)
GatherLayer_forward(posted) == all_gather(posted)

\* selects the local gradient of slot rank without the reduction
GatherLayer_backward_local(posted, rk) == posted[rk][rk]

\* GatherLayer.backward after the collective: all_gradients[dist.get_rank()]
GatherLayer_backward(posted, rk) == all_reduce(posted)[rk]

\* gather_features: torch.cat of the gathered tuples
gather_features(gathered_image_features, gathered_text_features) ==
    [all_image_features |-> cat(gathered_image_features),
     all_text_features |-> cat(gathered_text_features)]

\* The local batch of a rank in one step: B paired samples, every sample of
\* the step carrying its own value so that positions stay identifiable.
ImageBatch(rk, b, seed) == [i \in 0..(b - 1) |-> seed + rk * b + i]
TextBatch(rk, b, seed) == [i \in 0..(b - 1) |-> seed + world_size * b + rk * b + i]

\* The gradients autograd hands to GatherLayer.backward on rank rk: one
\* tensor per output slot, each contribution carrying its own power of two.
UpstreamGrads(rk, x) ==
    [s \in Ranks |-> [i \in DOMAIN x |-> x[i] * Pow2(rk * world_size + s)]]

Idle(w) ==
    [pc |-> "idle", criterion |-> w.criterion, device |-> None,
     image_features |-> None, text_features |-> None,
     gathered_image |-> None, gathered_text |-> None, out |-> None,
     grads_image |-> None, grads_text |-> None,
     grad_image |-> None, grad_text |-> None]

InitDist ==
    /\ criterion = None
    /\ call = None
    /\ world_size \in 2..MaxWorld
    /\ \E cache \in BOOLEAN :
          worker = [r \in Ranks |-> Idle([criterion |-> ClipLoss_init(cache, r, world_size)])]
    /\ coll = NoColl
    /\ args = None
    /\ nets = None
    /\ output = None
    /\ NoTraining
    /\ NoData

\* every rank receives its batch of the step (same size B on every rank) on
\* its local device of index dev
BeginStep ==
    /\ \A r \in Ranks : worker[r].pc = "idle"
    /\ \E b \in BatchSizes, seed \in FeatVals, dev \in Devices :
          worker' = [r \in Ranks |->
                        [worker[r] EXCEPT !.pc = "gather_image",
                                          !.device = dev,
                                          !.image_features = ImageBatch(r, b, seed),
                                          !.text_features = TextBatch(r, b, seed)]]
    /\ coll' = NoColl
    /\ UNCHANGED <<world_size, clipVars, fwdVars, trainVars, dataVars>>

Post(posted, r, x) == [k \in (DOMAIN posted) \cup {r} |-> IF k = r THEN x ELSE posted[k]]

\* GatherLayer.forward up to the blocking dist.all_gather(output, x)
GatherLayer_forward_call(r) ==
    /\ worker[r].pc \in {"gather_image", "gather_text"}
    /\ LET img == worker[r].pc = "gather_image"
       IN  /\ coll' = IF img
                         THEN [coll EXCEPT !.ag_image = Post(@, r, worker[r].image_features)]
                         ELSE [coll EXCEPT !.ag_text = Post(@, r, worker[r].text_features)]
           /\ worker' = [worker EXCEPT ![r].pc = IF img THEN "wait_image" ELSE "wait_text"]
    /\ UNCHANGED <<world_size, clipVars, fwdVars, trainVars, dataVars>>

\* dist.all_gather completes once every rank has contributed; forward
\* returns tuple(output)
GatherLayer_forward_return(r) ==
    /\ worker[r].pc \in {"wait_image", "wait_text"}
    /\ LET img == worker[r].pc = "wait_image"
           posted == IF img THEN coll.ag_image ELSE coll.ag_text
       IN  /\ DOMAIN posted = Ranks
           /\ worker' = IF img
                           THEN [worker EXCEPT ![r].pc = "gather_text",
                                               ![r].gathered_image = GatherLayer_forward(posted)]
                           ELSE [worker EXCEPT ![r].pc = "loss",
                                               ![r].gathered_text = GatherLayer_forward(posted)]
    /\ UNCHANGED <<coll, world_size, clipVars, fwdVars, trainVars, dataVars>>

\* the rest of ClipLoss.forward on rank r: logits, ground truth, loss
ClipLoss_forward_loss(r) ==
    /\ worker[r].pc = "loss"
    /\ \E logit_scale \in Scales :
         LET w == worker[r]
             g == gather_features(w.gathered_image, w.gathered_text)
             res == ClipLoss_forward(w.criterion, w.device, w.image_features,
                                     w.text_features, logit_scale,
                                     g.all_image_features, g.all_text_features)
         IN  worker' = [worker EXCEPT
                          ![r].pc = IF IsError(res.total_loss) THEN "raised" ELSE "backward_text",
                          ![r].criterion = res.self,
                          ![r].out = [res EXCEPT !.self = w.criterion]]
    /\ UNCHANGED <<coll, world_size, clipVars, fwdVars, trainVars, dataVars>>

\* GatherLayer.backward up to the blocking dist.all_reduce(all_gradients);
\* autograd runs the text gather's backward before the image gather's
GatherLayer_backward_call(r) ==
    /\ worker[r].pc \in {"backward_text", "backward_image"}
    /\ LET txt == worker[r].pc = "backward_text"
           grads == UpstreamGrads(r, IF txt THEN worker[r].text_features
                                            ELSE worker[r].image_features)
           all_gradients == grads      \* torch.stack(grads)
       IN  /\ coll' = IF txt
                         THEN [coll EXCEPT !.ar_text = Post(@, r, all_gradients)]
                         ELSE [coll EXCEPT !.ar_image = Post(@, r, all_gradients)]
           /\ worker' = IF txt
                           THEN [worker EXCEPT ![r].pc = "reduce_text", ![r].grads_text = grads]
                           ELSE [worker EXCEPT ![r].pc = "reduce_image", ![r].grads_image = grads]
    /\ UNCHANGED <<world_size, clipVars, fwdVars, trainVars, dataVars>>

\* dist.all_reduce completes once every rank has contributed; backward
\* returns all_gradients[dist.get_rank()]
GatherLayer_backward_return(r) ==
    /\ worker[r].pc \in {"reduce_text", "reduce_image"}
    /\ LET txt == worker[r].pc = "reduce_text"
           posted == IF txt THEN coll.ar_text ELSE coll.ar_image
       IN  /\ DOMAIN posted = Ranks
           /\ worker' = IF txt
                           THEN [worker EXCEPT ![r].pc = "backward_image",
                                               ![r].grad_text = GatherLayer_backward(posted, r)]
                           ELSE [worker EXCEPT ![r].pc = "done",
                                               ![r].grad_image = GatherLayer_backward(posted, r)]
    /\ UNCHANGED <<coll, world_size, clipVars, fwdVars, trainVars, dataVars>>

\* the step is over on every rank: its tensors go out of scope
EndStep ==
    /\ \A r \in Ranks : worker[r].pc = "done"
    /\ worker' = [r \in Ranks |-> Idle(worker[r])]
    /\ coll' = NoColl
    /\ UNCHANGED <<world_size, clipVars, fwdVars, trainVars, dataVars>>

NextDist ==
    \/ BeginStep
    \/ \E r \in Ranks : GatherLayer_forward_call(r)
    \/ \E r \in Ranks : GatherLayer_forward_return(r)
    \/ \E r \in Ranks : ClipLoss_forward_loss(r)
    \/ \E r \in Ranks : GatherLayer_backward_call(r)
    \/ \E r \in Ranks : GatherLayer_backward_return(r)
    \/ EndStep

SpecDist == InitDist /\ [][NextDist]_vars

(***************************************************************************)
(* Masked-patch reconstruction loss                                        *)
(* (src/weighted_loss/allmodel.py:275-277,                                 *)
(*  src/Vision/masked_modeling.py:95-98 and 122-125)                       *)
(* pixel_values[b][c][y][x], mask[b][i][j]; a loss value is the rational   *)
(* num / den.                                                              *)
(***************************************************************************)
Channels == 3
ImageSide == GridSize * PatchSize
Abs(v) == IF v < 0 THEN -v ELSE v

RECURSIVE SumTo(_, _)
\* f[0] + ... + f[n-1]
SumTo(f, n) == IF n = 0 THEN 0 ELSE f[n - 1] + SumTo(f, n - 1)

\* t.sum() of a 4-dimensional tensor
Sum4(t) ==
    SumTo([b \in DOMAIN t |->
            SumTo([c \in DOMAIN t[b] |->
                    SumTo([y \in DOMAIN t[b][c] |->
                            SumTo(t[b][c][y], Len0(t[b][c][y]))],
                          Len0(t[b][c]))],
                  Len0(t[b]))],
          Len0(t))

\* t.repeat_interleave(n, 1) of a tensor t[b][i][j]
repeat_interleave_1(t, n) ==
    [b \in DOMAIN t |-> [y \in 0..(Len0(t[b]) * n - 1) |-> t[b][y \div n]]]

\* t.repeat_interleave(n, 2) of a tensor t[b][y][j]
repeat_interleave_2(t, n) ==
    [b \in DOMAIN t |->
        [y \in DOMAIN t[b] |-> [x \in 0..(Len0(t[b][y]) * n - 1) |-> t[b][y][x \div n]]]]

\* t.unsqueeze(1)
unsqueeze_1(t) == [b \in DOMAIN t |-> [c \in {0} |-> t[b]]]

\* mask.repeat_interleave(n, 1).repeat_interleave(n, 2).unsqueeze(1)
ExpandMask(mask, n) == unsqueeze_1(repeat_interleave_2(repeat_interleave_1(mask, n), n))

\* F.l1_loss(a, b, reduction='none')
l1_loss(a, b) ==
    [i \in DOMAIN a |-> [c \in DOMAIN a[i] |-> [y \in DOMAIN a[i][c] |->
        [x \in DOMAIN a[i][c][y] |-> Abs(a[i][c][y][x] - b[i][c][y][x])]]]]

\* sums the loss of every pixel, masked or not
MulMask_all(t, m) == t

\* loss_recon * mask, the mask broadcast over the channel dimension
MulMask(t, m) ==
    [i \in DOMAIN t |-> [c \in DOMAIN t[i] |-> [y \in DOMAIN t[i][c] |->
        [x \in DOMAIN t[i][c][y] |-> t[i][c][y][x] * m[i][0][y][x]]]]]

\* (loss_recon * mask).sum() / (mask.sum() + 1e-5) / 3 for the expanded mask
MaskedMean(loss_recon, mask) ==
    [num |-> Sum4(MulMask(loss_recon, mask)) * 100000,
     den |-> (Sum4(mask) * 100000 + 1) * 3]

\* the three loss lines of the training loops and of CLIPWeightedLOSS.forward
ReconLoss(img, img_rec, mask, patch_size) ==
    LET m == ExpandMask(mask, patch_size)
    IN  [mask |-> m, loss |-> MaskedMean(l1_loss(img, img_rec), m)]

(***************************************************************************)
(* CLIPWeightedLOSS.forward  (src/weighted_loss/allmodel.py:246-303)       *)
(***************************************************************************)
MASK_ID == 49408
IGNORE == -100

Some(t) == [op |-> "tensor", data |-> t]

\* takes the label of a masked position from masked_ids
MlmLabels_from_masked(masked_ids, input_ids) ==
    [b \in DOMAIN masked_ids |-> [p \in DOMAIN masked_ids[b] |->
        IF masked_ids[b][p] = MASK_ID THEN masked_ids[b][p] ELSE IGNORE]]

\* torch.where(masked_ids == 49408, input_ids, -100)
MlmLabels(masked_ids, input_ids) ==
    [b \in DOMAIN masked_ids |-> [p \in DOMAIN masked_ids[b] |->
        IF masked_ids[b][p] = MASK_ID THEN input_ids[b][p] ELSE IGNORE]]

\* labels.view(-1)
view_flat(t) ==
    LET n == Len0(t[0])
    IN  [q \in 0..(Len0(t) * n - 1) |-> t[q \div n][q % n]]

\* self.textdecoder(self.cliptext(input_ids, attention_mask).last_hidden_state)
\* .view(-1, 49409): the value of the networks, kept as a term
TextDecoderLogits(input_ids, attention_mask) ==
    [op |-> "textdecoder", input_ids |-> input_ids, attention_mask |-> attention_mask]

\* self.mlmcriterion(mask_logits.view(-1, 49409), labels.view(-1)):
\* nn.CrossEntropyLoss with ignore_index -100
mlmcriterion(mask_logits, labels) ==
    [op |-> "cross_entropy", input |-> mask_logits, target |-> labels]

\* the returned dictionary and the tensors the caller still holds afterwards
CLIPWeightedLOSS_forward(a, n) ==
    LET input_ids == a.input_ids
        masked_ids == IF a.masked_ids = None THEN input_ids ELSE a.masked_ids.data
        c == ClipLoss_forward(ClipLoss_init(FALSE, 0, 1), a.device, n.image_embeds,
                              n.text_embeds, a.logit_scale, n.image_embeds, n.text_embeds)
        clip == c.total_loss
        r == ReconLoss(a.pixel_values, n.x_rec, n.mask, PatchSize)
        loss_recon == r.loss
        labels == MlmLabels(masked_ids, input_ids)
        loss_mlm == mlmcriterion(TextDecoderLogits(masked_ids, a.attention_mask),
                                 view_flat(labels))
        total == [op |-> "add", a |-> clip, b |-> loss_mlm]
    IN  [op |-> "output",
         loss_recon |-> loss_recon,
         loss_mlm |-> loss_mlm,
         clip_loss |-> clip,
         loss |-> total,
         text_embeds |-> n.text_embeds,
         image_embeds |-> n.image_embeds,
         mask |-> r.mask,
         labels |-> labels,
         masked_ids |-> masked_ids]

\* ---- the inputs of the calls that are examined ----
Pixels(b) == (0..(b - 1)) \X (0..(Channels - 1)) \X (0..(ImageSide - 1)) \X (0..(ImageSide - 1))

\* a batch of b images with varying pixel values
Image(b) ==
    [i \in 0..(b - 1) |-> [c \in 0..(Channels - 1) |-> [y \in 0..(ImageSide - 1) |->
        [x \in 0..(ImageSide - 1) |-> (i + c + y + x) % 2]]]]

\* t with delta added at every pixel of the set ps
Shifted(t, ps, delta) ==
    [i \in DOMAIN t |-> [c \in DOMAIN t[i] |-> [y \in DOMAIN t[i][c] |->
        [x \in DOMAIN t[i][c][y] |->
            IF <<i, c, y, x>> \in ps THEN t[i][c][y][x] + delta ELSE t[i][c][y][x]]]]]

\* the first and the last pixel of every patch, in every channel
CornerPixels(b) ==
    {q \in Pixels(b) : /\ q[3] % PatchSize = q[4] % PatchSize
                       /\ q[3] % PatchSize \in {0, PatchSize - 1}}

\* reconstructions: exact, off by one everywhere, or off at a single pixel
Reconstructions(img) ==
    LET b == Len0(img)
    IN  {img, Shifted(img, Pixels(b), 1)} \cup {Shifted(img, {q}, -1) : q \in CornerPixels(b)}

\* the patch masks that mark no patch, one patch, all patches but one, or all
PatchMasks ==
    {m \in [0..(GridSize - 1) -> [0..(GridSize - 1) -> {0, 1}]] :
        \E v \in {0, 1} :
            Cardinality({c \in (0..(GridSize - 1)) \X (0..(GridSize - 1)) : m[c[1]][c[2]] = v}) <= 1}

\* one patch mask per image; the images after the first share one mask
BatchMasks(b) ==
    {[i \in 0..(b - 1) |-> IF i = 0 THEN m ELSE m2] : m \in PatchMasks,
        m2 \in {[i \in 0..(GridSize - 1) |-> [j \in 0..(GridSize - 1) |-> (i + j) % 2]]}}

WordIds(b) == [i \in 0..(b - 1) |-> [p \in 0..(SeqLen - 1) |-> 320 + i * SeqLen + p]]

\* ids with the mask token at the positions of ps
Masked(ids, ps) ==
    [i \in DOMAIN ids |-> [p \in DOMAIN ids[i] |->
        IF <<i, p>> \in ps THEN MASK_ID ELSE ids[i][p]]]

Positions(b) == (0..(b - 1)) \X (0..(SeqLen - 1))
Ones(b) == [i \in 0..(b - 1) |-> [p \in 0..(SeqLen - 1) |-> 1]]

DefaultArgs(b) ==
    [input_ids |-> WordIds(b), masked_ids |-> None, attention_mask |-> Ones(b),
     pixel_values |-> Image(b), device |-> 0, logit_scale |-> 2]

DefaultNets(b) ==
    [mask |-> [i \in 0..(b - 1) |-> [y \in 0..(GridSize - 1) |-> [x \in 0..(GridSize - 1) |-> 1]]],
     x_rec |-> Shifted(Image(b), Pixels(b), 1),
     image_embeds |-> [i \in 0..(b - 1) |-> 1],
     text_embeds |-> [i \in 0..(b - 1) |-> 1]]

\* the calls that vary the images, the masks and the reconstruction
\* (every mask with the exact and the shifted reconstruction, the masks of
\* one marked and of one unmarked patch with every reconstruction)
PixelCalls(b) ==
    {<<DefaultArgs(b), [DefaultNets(b) EXCEPT !.mask = m, !.x_rec = r]>> :
        m \in BatchMasks(b), r \in {Image(b), Shifted(Image(b), Pixels(b), 1)}}
    \cup
    {<<DefaultArgs(b), [DefaultNets(b) EXCEPT !.mask = m, !.x_rec = r]>> :
        m \in {k \in BatchMasks(b) : k[0][0][0] # k[0][GridSize - 1][GridSize - 1]},
        r \in Reconstructions(Image(b))}

\* the calls that vary the token ids and the masked ids
TokenCalls(b) ==
    {<<[DefaultArgs(b) EXCEPT !.input_ids = ids, !.masked_ids = mi], DefaultNets(b)>> :
        ids \in {WordIds(b), Masked(WordIds(b), {<<0, 0>>})},
        mi \in {None} \cup {Some(Masked(WordIds(b), ps)) : ps \in SUBSET Positions(b)}}

\* the calls that vary the embeddings
EmbedCalls(b) ==
    {<<DefaultArgs(b), [DefaultNets(b) EXCEPT !.image_embeds = ie, !.text_embeds = te]>> :
        ie \in Features(b), te \in Features(b)}

InitForward ==
    /\ criterion = None
    /\ call = None
    /\ world_size = 1
    /\ worker = None
    /\ coll = NoColl
    /\ \E b \in BatchSizes :
         \E c \in PixelCalls(b) \cup TokenCalls(b) \cup EmbedCalls(b) :
            /\ args = c[1]
            /\ nets = c[2]
    /\ output = None
    /\ NoTraining
    /\ NoData

\* model(input_ids, pixel_values, attention_mask, masked_ids)
CLIPWeightedLOSS_call ==
    /\ output = None
    /\ output' = CLIPWeightedLOSS_forward(args, nets)
    /\ UNCHANGED <<args, nets, clipVars, distVars, trainVars, dataVars>>

NextForward == CLIPWeightedLOSS_call

SpecForward == InitForward /\ [][NextForward]_vars

(***************************************************************************)
(* masked_modeling  (src/Vision/masked_modeling.py:21-151)                 *)
(* One step per statement of the epoch loop.                               *)
(***************************************************************************)
\* AverageMeter()
AverageMeter == [op |-> "AverageMeter", updates |-> 0, count |-> 0]

\* meter.update(val, n)
MeterUpdated(meter, n) == [meter EXCEPT !.updates = @ + 1, !.count = @ + n]

\* the patch masks of the batches of the two loaders
LoaderMasks ==
    {[i \in 0..(GridSize - 1) |-> [j \in 0..(GridSize - 1) |-> 0]],
     [i \in 0..(GridSize - 1) |-> [j \in 0..(GridSize - 1) |-> IF i = 0 /\ j = 0 THEN 1 ELSE 0]],
     [i \in 0..(GridSize - 1) |-> [j \in 0..(GridSize - 1) |-> 1]]}

\* the batches (img, mask) of a loader together with the model's img_rec
LoaderBatches(b) ==
    {[img |-> Image(b), mask |-> [i \in 0..(b - 1) |-> m], img_rec |-> r] :
        m \in LoaderMasks, r \in {Image(b), Shifted(Image(b), Pixels(b), 1)}}

\* validates only together with the checkpoint
ShouldValidate_with_save(epoch) == epoch % 10 = 0

\* if epoch % 5 == 0
ShouldValidate(epoch) == epoch % 5 = 0

\* if epoch % 10 == 0
ShouldSave(epoch) == epoch % 10 = 0

\* lr_scheduler.step_update(epoch * num_steps + idx)
UpdateIndex(epoch, num_steps, idx) == epoch * num_steps + idx

InitTrain ==
    /\ criterion = None
    /\ call = None
    /\ world_size = 1
    /\ worker = None
    /\ coll = NoColl
    /\ args = None
    /\ nets = None
    /\ output = None
    /\ \E epochs \in {1, MaxEpochs}, n \in 1..MaxIters, v \in 1..MaxIters, b \in BatchSizes :
          cfg = [epochs |-> epochs, batch_size |-> b, n_iter_per_epoch |-> n, n_val |-> v,
                 num_steps |-> epochs * n]
    /\ train = [pc |-> "epoch", epoch |-> 1, idx |-> 0, mode |-> "init"]
    /\ batch = None
    /\ loss = None
    /\ optimizer = [grads |-> "none", steps |-> 0]
    /\ lr_scheduler = [num_updates |-> -1, calls |-> 0]
    /\ meters = [loss_meter |-> None, val_loss_meter |-> None]
    /\ log = << >>
    /\ ckpts = {}
    /\ ops = << >>
    /\ NoData

notTrain == <<clipVars, distVars, fwdVars, dataVars>>

\* for epoch in range(1, epochs + 1): loss_meter = AverageMeter(); model.train()
EpochStart ==
    /\ train.pc = "epoch"
    /\ train.epoch <= cfg.epochs
    /\ train' = [train EXCEPT !.pc = "train_iter", !.idx = 0, !.mode = "train"]
    /\ meters' = [meters EXCEPT !.loss_meter = AverageMeter]
    /\ UNCHANGED <<cfg, batch, loss, optimizer, lr_scheduler, log, ckpts, ops, notTrain>>

\* the epoch range is exhausted
Finish ==
    /\ train.pc = "epoch"
    /\ train.epoch > cfg.epochs
    /\ train' = [train EXCEPT !.pc = "done"]
    /\ UNCHANGED <<cfg, batch, loss, optimizer, lr_scheduler, meters, log, ckpts, ops, notTrain>>

\* next (img, mask) of trainset, img_rec = model(img, mask), the loss
TrainBatch ==
    /\ train.pc = "train_iter"
    /\ train.idx < cfg.n_iter_per_epoch
    /\ \E b \in LoaderBatches(cfg.batch_size) :
          LET r == ReconLoss(b.img, b.img_rec, b.mask, PatchSize)
          IN  /\ batch' = [img |-> b.img, patch_mask |-> b.mask, mask |-> r.mask,
                           img_rec |-> b.img_rec]
              /\ loss' = r.loss
    /\ ops' = << >>
    /\ train' = [train EXCEPT !.pc = "zero_grad"]
    /\ UNCHANGED <<cfg, optimizer, lr_scheduler, meters, log, ckpts, notTrain>>

\* optimizer.zero_grad()
ZeroGrad ==
    /\ train.pc = "zero_grad"
    /\ optimizer' = [optimizer EXCEPT !.grads = "zero"]
    /\ ops' = Append(ops, "zero_grad")
    /\ train' = [train EXCEPT !.pc = "backward"]
    /\ UNCHANGED <<cfg, batch, loss, lr_scheduler, meters, log, ckpts, notTrain>>

\* if loss != 0: loss.backward()
Backward ==
    /\ train.pc = "backward"
    /\ loss.num # 0
    /\ optimizer' = [optimizer EXCEPT !.grads = "computed"]
    /\ ops' = Append(ops, "backward")
    /\ train' = [train EXCEPT !.pc = "step"]
    /\ UNCHANGED <<cfg, batch, loss, lr_scheduler, meters, log, ckpts, notTrain>>

\* leaves the rest of the iteration out when the loss is 0
SkipBackward_continue ==
    /\ train.pc = "backward"
    /\ loss.num = 0
    /\ train' = [train EXCEPT !.pc = "train_iter", !.idx = @ + 1]
    /\ UNCHANGED <<cfg, batch, loss, optimizer, lr_scheduler, meters, log, ckpts, ops, notTrain>>

\* the loss is 0: backward is skipped
SkipBackward ==
    /\ train.pc = "backward"
    /\ loss.num = 0
    /\ train' = [train EXCEPT !.pc = "step"]
    /\ UNCHANGED <<cfg, batch, loss, optimizer, lr_scheduler, meters, log, ckpts, ops, notTrain>>

\* optimizer.step()
OptimizerStep ==
    /\ train.pc = "step"
    /\ optimizer' = [optimizer EXCEPT !.steps = @ + 1]
    /\ ops' = Append(ops, "step")
    /\ train' = [train EXCEPT !.pc = "step_update"]
    /\ UNCHANGED <<cfg, batch, loss, lr_scheduler, meters, log, ckpts, notTrain>>

\* lr_scheduler.step_update(epoch * num_steps + idx)
StepUpdate ==
    /\ train.pc = "step_update"
    /\ lr_scheduler' = [num_updates |-> UpdateIndex(train.epoch, cfg.num_steps, train.idx),
                        calls |-> lr_scheduler.calls + 1]
    /\ ops' = Append(ops, "step_update")
    /\ train' = [train EXCEPT !.pc = "meter"]
    /\ UNCHANGED <<cfg, batch, loss, optimizer, meters, log, ckpts, notTrain>>

\* loss_meter.update(loss.item(), img.size(0)); the loop goes on
MeterUpdate ==
    /\ train.pc = "meter"
    /\ meters' = [meters EXCEPT !.loss_meter = MeterUpdated(@, Len0(batch.img))]
    /\ ops' = Append(ops, "meter")
    /\ train' = [train EXCEPT !.pc = "train_iter", !.idx = @ + 1]
    /\ UNCHANGED <<cfg, batch, loss, optimizer, lr_scheduler, log, ckpts, notTrain>>

\* trainset is exhausted: logger.info('train_epoch...')
TrainLog ==
    /\ train.pc = "train_iter"
    /\ train.idx = cfg.n_iter_per_epoch
    /\ log' = Append(log, [kind |-> "train", epoch |-> train.epoch])
    /\ train' = [train EXCEPT !.pc = "validate"]
    /\ UNCHANGED <<cfg, batch, loss, optimizer, lr_scheduler, meters, ckpts, ops, notTrain>>

\* if epoch % 5 == 0: val_loss_meter = AverageMeter(); model.eval()
ValidateStart ==
    /\ train.pc = "validate"
    /\ ShouldValidate(train.epoch)
    /\ meters' = [meters EXCEPT !.val_loss_meter = AverageMeter]
    /\ train' = [train EXCEPT !.pc = "val_iter", !.idx = 0, !.mode = "eval"]
    /\ UNCHANGED <<cfg, batch, loss, optimizer, lr_scheduler, log, ckpts, ops, notTrain>>

\* no validation in this epoch
ValidateSkip ==
    /\ train.pc = "validate"
    /\ ~ShouldValidate(train.epoch)
    /\ train' = [train EXCEPT !.pc = "save"]
    /\ UNCHANGED <<cfg, batch, loss, optimizer, lr_scheduler, meters, log, ckpts, ops, notTrain>>

\* next (img, mask) of valset under torch.no_grad(), img_rec, the loss
ValBatch ==
    /\ train.pc = "val_iter"
    /\ train.idx < cfg.n_val
    /\ \E b \in LoaderBatches(cfg.batch_size) :
          LET r == ReconLoss(b.img, b.img_rec, b.mask, PatchSize)
          IN  /\ batch' = [img |-> b.img, patch_mask |-> b.mask, mask |-> r.mask,
                           img_rec |-> b.img_rec]
              /\ loss' = r.loss
    /\ ops' = << >>
    /\ train' = [train EXCEPT !.pc = "val_meter"]
    /\ UNCHANGED <<cfg, optimizer, lr_scheduler, meters, log, ckpts, notTrain>>

\* val_loss_meter.update(loss.item(), img.size(0)); the loop goes on
ValMeterUpdate ==
    /\ train.pc = "val_meter"
    /\ meters' = [meters EXCEPT !.val_loss_meter = MeterUpdated(@, Len0(batch.img))]
    /\ ops' = Append(ops, "val_meter")
    /\ train' = [train EXCEPT !.pc = "val_iter", !.idx = @ + 1]
    /\ UNCHANGED <<cfg, batch, loss, optimizer, lr_scheduler, log, ckpts, notTrain>>

\* valset is exhausted: logger.info('val_epoch...')
ValLog ==
    /\ train.pc = "val_iter"
    /\ train.idx = cfg.n_val
    /\ log' = Append(log, [kind |-> "val", epoch |-> train.epoch])
    /\ train' = [train EXCEPT !.pc = "save"]
    /\ UNCHANGED <<cfg, batch, loss, optimizer, lr_scheduler, meters, ckpts, ops, notTrain>>

\* if epoch % 10 == 0: write ckpt_epoch_{epoch}/mim_epoch_{epoch}.pth
SaveCheckpoint ==
    /\ train.pc = "save"
    /\ ShouldSave(train.epoch)
    /\ ckpts' = ckpts \cup
          {[output_path |-> [name |-> "ckpt_epoch_", epoch |-> train.epoch],
            file |-> [name |-> "mim_epoch_", epoch |-> train.epoch],
            mim_checkpoint |-> [optimizer |-> optimizer, lr_scheduler |-> lr_scheduler,
                                epoch |-> train.epoch]]}
    /\ log' = Append(log, [kind |-> "save", epoch |-> train.epoch])
    /\ train' = [train EXCEPT !.pc = "epoch", !.epoch = @ + 1]
    /\ UNCHANGED <<cfg, batch, loss, optimizer, lr_scheduler, meters, ops, notTrain>>

\* no checkpoint in this epoch
SaveSkip ==
    /\ train.pc = "save"
    /\ ~ShouldSave(train.epoch)
    /\ train' = [train EXCEPT !.pc = "epoch", !.epoch = @ + 1]
    /\ UNCHANGED <<cfg, batch, loss, optimizer, lr_scheduler, meters, log, ckpts, ops, notTrain>>

NextTrain ==
    \/ EpochStart
    \/ Finish
    \/ TrainBatch
    \/ ZeroGrad
    \/ Backward
    \/ SkipBackward
    \/ OptimizerStep
    \/ StepUpdate
    \/ MeterUpdate
    \/ TrainLog
    \/ ValidateStart
    \/ ValidateSkip
    \/ ValBatch
    \/ ValMeterUpdate
    \/ ValLog
    \/ SaveCheckpoint
    \/ SaveSkip

SpecTrain == InitTrain /\ [][NextTrain]_vars

\* CLIPWeightedLOSS.forward calls together with the masked_modeling runs of
\* MaxEpochs epochs over loaders of one batch
InitLoss ==
    \/ InitForward
    \/ InitTrain /\ cfg.epochs = MaxEpochs /\ cfg.n_iter_per_epoch = 1 /\ cfg.n_val = 1
NextLoss ==
    \/ args # None /\ NextForward
    \/ train # None /\ NextTrain
SpecLoss == InitLoss /\ [][NextLoss]_vars

(***************************************************************************)
(* FlickrDataset  (src/LM/LMmodel.py:81-167)                               *)
(* A Python list is a function over 0..len-1.  A text segment is given as  *)
(* the list of tokens the tokenizer yields for it.                         *)
(***************************************************************************)
MaxTokens == 4         \* longest token list of a text segment
MaxSegLen == 5         \* largest max_len and num_max_bpe_tokens

bos_token_id == 49406
eos_token_id == 49407
PadId == 1

RuntimeError == [op |-> "raise", error |-> "RuntimeError"]
IntArg(n) == [op |-> "int", value |-> n]
Min(a, b) == IF a < b THEN a ELSE b
Max(a, b) == IF a < b THEN b ELSE a

\* a + b of two lists
Concat(a, b) ==
    [i \in 0..(Len0(a) + Len0(b) - 1) |-> IF i < Len0(a) THEN a[i] ELSE b[i - Len0(a)]]

\* [x] * n, the empty list for n <= 0
Repeat(x, n) == [i \in 0..(n - 1) |-> x]

\* l[:k], a negative k counting from the end
Prefix(l, k) ==
    LET stop == IF k < 0 THEN Max(Len0(l) + k, 0) ELSE Min(k, Len0(l))
    IN  [i \in 0..(stop - 1) |-> l[i]]

\* keeps every token
Truncate_keep_all(tokens, max_len) == tokens

\* if len(tokens) > max_len - 2: tokens = tokens[:max_len - 2]
Truncate(tokens, max_len) ==
    IF Len0(tokens) > max_len - 2 THEN Prefix(tokens, max_len - 2) ELSE tokens

\* FlickrDataset._get_text_segment(text_segment, max_len)
FlickrDataset_get_text_segment(self, text_segment, max_len) ==
    IF Len0(text_segment) = 0 THEN RuntimeError
    ELSE LET len == IF max_len.op = "None" THEN self.num_max_bpe_tokens ELSE max_len.value
             tokens == Concat(Concat(Repeat(bos_token_id, 1), Truncate(text_segment, len)),
                              Repeat(eos_token_id, 1))
             num_tokens == Len0(tokens)
             padding_mask == Concat(Repeat(0, num_tokens), Repeat(1, len - num_tokens))
         IN  [op |-> "return",
              tokens |-> Concat(tokens, Repeat(PadId, len - num_tokens)),
              padding_mask |-> padding_mask,
              num_tokens |-> num_tokens]

\* ---- the calls of _get_text_segment that are examined ----
WordIds1 == {320, 321}
TokenLists(n) == UNION {[0..(k - 1) -> WordIds1] : k \in 0..n}

\* the other parts of the program do not exist
NoProgram ==
    /\ criterion = None
    /\ call = None
    /\ world_size = 1
    /\ worker = None
    /\ coll = NoColl
    /\ args = None
    /\ nets = None
    /\ output = None
    /\ NoTraining

notData == <<clipVars, distVars, fwdVars, trainVars>>

InitSegment ==
    /\ NoProgram
    /\ \E n \in 1..MaxSegLen, m \in {None} \cup {IntArg(k) : k \in 1..MaxSegLen} :
          /\ m = None \/ n = MaxSegLen
          /\ dataset = [op |-> "FlickrDataset", num_max_bpe_tokens |-> n]
          /\ \E t \in TokenLists(MaxTokens) : given = [text_segment |-> t, max_len |-> m]
    /\ data = None

\* self._get_text_segment(text_segment, max_len)
FlickrDataset_get_text_segment_call ==
    /\ data = None
    /\ data' = FlickrDataset_get_text_segment(dataset, given.text_segment, given.max_len)
    /\ UNCHANGED <<dataset, given, notData>>

NextSegment == FlickrDataset_get_text_segment_call

SpecSegment == InitSegment /\ [][NextSegment]_vars

MaxItems == 5          \* most lines of an index file
MaxImageId == 2        \* largest image_id of an index file
SampleRange == 5       \* random.sample(range(5), 2)

RECURSIVE FlickrDataset_text(_, _)
\* self.text after the grouping loop has taken the first n items
FlickrDataset_text(items, n) ==
    IF n = 0 THEN Repeat(<< >>, 1)
    ELSE LET text == FlickrDataset_text(items, n - 1)
             d == items[n - 1]
         IN  IF d.image_id < Len0(text)
                 THEN [text EXCEPT ![d.image_id] = Concat(@, Repeat(d.text_segment, 1))]
                 ELSE Concat(text, Repeat(Repeat(d.text_segment, 1), 1))

\* FlickrDataset.__init__ once the index files are read into items
FlickrDataset_init(items, num_max_bpe_tokens) ==
    [op |-> "FlickrDataset", num_max_bpe_tokens |-> num_max_bpe_tokens,
     items |-> items, text |-> FlickrDataset_text(items, Len0(items))]

\* FlickrDataset.__len__
FlickrDataset_len(self) == Len0(self.text)

\* random.sample(range(5), 2): two distinct positions, in the order drawn
RandomSamples ==
    {r \in [0..1 -> 0..(SampleRange - 1)] : r[0] # r[1]}

\* FlickrDataset.__getitem__, that is _get_text_text_example(index, data)
FlickrDataset_getitem(self, index, random_numbers) ==
    LET item == self.text[index]
    IN  IF random_numbers[0] \notin DOMAIN item THEN IndexError
        ELSE LET first == FlickrDataset_get_text_segment(self, item[random_numbers[0]], None)
             IN  IF IsError(first) THEN first
                 ELSE IF random_numbers[1] \notin DOMAIN item THEN IndexError
                 ELSE LET second == FlickrDataset_get_text_segment(self, item[random_numbers[1]], None)
                      IN  IF IsError(second) THEN second
                          ELSE [op |-> "data",
                                language_tokens0 |-> first.tokens,
                                padding_mask0 |-> first.padding_mask,
                                language_tokens1 |-> second.tokens,
                                padding_mask1 |-> second.padding_mask]

\* ---- the index files that are examined ----
\* line k of the file carries its own caption
Caption(k) == Repeat(320 + k, 1 + (k % 2))

IndexFiles ==
    {[k \in 0..(n - 1) |-> [image_id |-> ids[k], text_segment |-> Caption(k)]] :
        n \in 0..MaxItems, ids \in [0..(MaxItems - 1) -> 0..MaxImageId]}

InitFlickr ==
    /\ NoProgram
    /\ dataset = None
    /\ \E items \in IndexFiles : given = [items |-> items, num_max_bpe_tokens |-> MaxSegLen]
    /\ data = None

\* FlickrDataset(data_path, split, tokenizer, num_max_bpe_tokens, task)
FlickrDataset_new ==
    /\ dataset = None
    /\ dataset' = FlickrDataset_init(given.items, given.num_max_bpe_tokens)
    /\ UNCHANGED <<given, data, notData>>

\* dataset[index] for an index that the sampler yields
FlickrDataset_getitem_call ==
    /\ dataset # None
    /\ \E index \in 0..(FlickrDataset_len(dataset) - 1), random_numbers \in RandomSamples :
          data' = [op |-> "getitem", index |-> index, random_numbers |-> random_numbers,
                   result |-> FlickrDataset_getitem(dataset, index, random_numbers)]
    /\ UNCHANGED <<dataset, given, notData>>

NextFlickr ==
    \/ FlickrDataset_new
    \/ FlickrDataset_getitem_call

SpecFlickr == InitFlickr /\ [][NextFlickr]_vars

(***************************************************************************)
(* CLIPMaskDataset  (src/LM/LMmodel.py:260-318)                            *)
(***************************************************************************)
MaskMaxLen == 5        \* max_len of CLIPMaskDataset._get_text_segment (64 in the source)

RECURSIVE MaskLoop_past_eos(_, _, _)
\* goes on behind an EOS instead of leaving the loop
MaskLoop_past_eos(masked_tokens, i, draws) ==
    IF i = Len0(masked_tokens) THEN masked_tokens
    ELSE IF masked_tokens[i] = bos_token_id THEN MaskLoop_past_eos(masked_tokens, i + 1, draws)
    ELSE IF draws[i]
        THEN MaskLoop_past_eos([masked_tokens EXCEPT ![i] = MASK_ID], i + 1, draws)
        ELSE MaskLoop_past_eos(masked_tokens, i + 1, draws)

RECURSIVE MaskLoop(_, _, _)
\* for i in range(len(masked_tokens)) from position i on; draws[i] tells
\* whether random.random() < 0.15 at position i
MaskLoop(masked_tokens, i, draws) ==
    IF i = Len0(masked_tokens) THEN masked_tokens
    ELSE IF masked_tokens[i] = bos_token_id THEN MaskLoop(masked_tokens, i + 1, draws)
    ELSE IF masked_tokens[i] = eos_token_id THEN masked_tokens
    ELSE IF draws[i]
        THEN MaskLoop([masked_tokens EXCEPT ![i] = MASK_ID], i + 1, draws)
        ELSE MaskLoop(masked_tokens, i + 1, draws)

\* CLIPMaskDataset._get_text_segment(text_segment, max_len) for the token ids
\* that the tokenizer returns for text_segment
CLIPMaskDataset_get_text_segment(input_ids, max_len, draws) ==
    IF Len0(input_ids) = 0 THEN RuntimeError
    ELSE LET tokens == IF Len0(input_ids) > max_len - 1
                           THEN Prefix(input_ids, max_len - 1) ELSE input_ids
             num_tokens == Len0(tokens)
             attention_mask == Concat(Repeat(1, num_tokens), Repeat(0, max_len - num_tokens))
             full_tokens == Concat(tokens, Repeat(eos_token_id, max_len - num_tokens))
         IN  [op |-> "return",
              full_tokens |-> full_tokens,
              masked_tokens |-> MaskLoop(full_tokens, 0, draws),
              attention_mask |-> attention_mask]

\* CLIPMaskDataset.__getitem__
CLIPMaskDataset_getitem(input_ids, draws) ==
    LET r == CLIPMaskDataset_get_text_segment(input_ids, MaskMaxLen, draws)
    IN  IF IsError(r) THEN r
        ELSE [op |-> "data", full_tokens |-> r.full_tokens,
              masked_tokens |-> r.masked_tokens, attention_mask |-> r.attention_mask]

\* what the CLIP tokenizer returns: BOS, the ids of the text, EOS; a text
\* may itself name the special tokens
TokenizerOutputs ==
    {Concat(Concat(Repeat(bos_token_id, 1), body), Repeat(eos_token_id, 1)) :
        body \in UNION {[0..(k - 1) -> {320, bos_token_id, eos_token_id}] : k \in 0..MaskMaxLen}}

InitMask ==
    /\ NoProgram
    /\ dataset = [op |-> "CLIPMaskDataset"]
    /\ \E t \in TokenizerOutputs : given = [input_ids |-> t]
    /\ data = None

\* dataset[index] with the outcomes of the random draws
CLIPMaskDataset_getitem_call ==
    /\ data = None
    /\ \E draws \in [0..(MaskMaxLen - 1) -> BOOLEAN] :
          data' = CLIPMaskDataset_getitem(given.input_ids, draws)
    /\ UNCHANGED <<dataset, given, notData>>

NextMask == CLIPMaskDataset_getitem_call

SpecMask == InitMask /\ [][NextMask]_vars

(***************************************************************************)
(* Claims about the single-process specification                           *)
(***************************************************************************)
RowsOf(c) == 0..(c.num_logits - 1)

\* C2: in the single-worker case the cross-entropy target of row i of the
\* similarity matrix is column i for every row i in 0..N-1, both for the
\* matrix (image-to-text) and for its transpose (text-to-image), in
\* ClipLoss.forward and in LMmodel's clip_loss.
C2_DiagonalTargets ==
    /\ (call.op = "forward" /\ call.self.world_size = 1) =>
          /\ \A i \in RowsOf(call) : i \in DOMAIN call.labels /\ call.labels[i] = i
          /\ call.logits_per_text = Transpose(call.logits_per_image)
          /\ ~IsError(call.total_loss)
          /\ call.total_loss.a.input = call.logits_per_image
          /\ call.total_loss.b.input = call.logits_per_text
          /\ \A i \in RowsOf(call) :
                call.total_loss.a.target[i] = i /\ call.total_loss.b.target[i] = i
    /\ call.op = "clip_loss" =>
          /\ call.caption_loss.input = call.similarity
          /\ call.image_loss.input = Transpose(call.similarity)
          /\ \A i \in DOMAIN call.similarity :
                call.caption_loss.target[i] = i /\ call.image_loss.target[i] = i

\* C8: with cache_labels enabled the labels used by every ClipLoss.forward
\* call have length num_logits and equal the labels a fresh computation
\* produces, whatever devices and batch sizes the earlier calls had.
C8_NoStaleLabels ==
    (call.op = "forward" /\ call.self.cache_labels) =>
        /\ Len0(call.labels) = call.num_logits
        /\ call.labels = FreshLabels(call.self, call.num_logits)

(***************************************************************************)
(* Claims about the distributed specification                              *)
(***************************************************************************)
HasGatheredImage(r) == worker[r].pc \notin {"idle", "gather_image", "wait_image"}
HasGatheredText(r) == HasGatheredImage(r) /\ worker[r].pc \notin {"gather_text", "wait_text"}
HasOut(r) == HasGatheredText(r) /\ worker[r].pc # "loss"
HasGradText(r) == worker[r].pc \in {"backward_image", "reduce_image", "done"}
HasGradImage(r) == worker[r].pc = "done"
LocalBatch(r) == Len0(worker[r].image_features)

\* C3: with world_size W > 1 and the same local batch size B on every rank,
\* ClipLoss.forward on rank r builds B x (W*B) logits against the features
\* gathered in rank order, and the target of local row i is column r*B + i,
\* the column that holds rank r's own i-th paired sample.
C3_DistributedTargets ==
    \A r \in Ranks : HasOut(r) =>
        LET w == worker[r]
            B == LocalBatch(r)
            o == w.out
        IN  /\ DOMAIN o.logits_per_image = 0..(B - 1)
            /\ DOMAIN o.logits_per_text = 0..(B - 1)
            /\ \A i \in 0..(B - 1) :
                  /\ DOMAIN o.logits_per_image[i] = 0..(world_size * B - 1)
                  /\ DOMAIN o.logits_per_text[i] = 0..(world_size * B - 1)
                  /\ \A k \in Ranks, j \in 0..(B - 1) :
                        /\ o.logits_per_image[i][k * B + j] =
                              o.logit_scale * w.image_features[i] * worker[k].text_features[j]
                        /\ o.logits_per_text[i][k * B + j] =
                              o.logit_scale * w.text_features[i] * worker[k].image_features[j]
                  /\ i \in DOMAIN o.labels
                  /\ o.labels[i] = r * B + i
            /\ ~IsError(o.total_loss)
            /\ \A i \in 0..(B - 1) :
                  /\ o.total_loss.a.target[i] = r * B + i
                  /\ o.total_loss.b.target[i] = r * B + i

RECURSIVE IncomingSum(_, _, _, _)
\* sum over the ranks 0..k of rank k's incoming gradient for output slot s
IncomingSum(field, k, s, i) ==
    IF k < 0 THEN 0
    ELSE (IF field = "text" THEN worker[k].grads_text[s][i]
                            ELSE worker[k].grads_image[s][i])
         + IncomingSum(field, k - 1, s, i)

\* C4: when all W workers run GatherLayer.backward, the gradient returned on
\* rank r is the sum over all workers k of worker k's incoming gradient for
\* output slot r; no worker's contribution to slot r is dropped.
C4_BackwardSumsSlot ==
    \A r \in Ranks :
        /\ HasGradText(r) =>
              /\ DOMAIN worker[r].grad_text = DOMAIN worker[r].text_features
              /\ \A i \in DOMAIN worker[r].grad_text :
                    worker[r].grad_text[i] = IncomingSum("text", world_size - 1, r, i)
        /\ HasGradImage(r) =>
              /\ DOMAIN worker[r].grad_image = DOMAIN worker[r].image_features
              /\ \A i \in DOMAIN worker[r].grad_image :
                    worker[r].grad_image[i] = IncomingSum("image", world_size - 1, r, i)

\* a rank has received its gradients while every rank contributed nonzero,
\* pairwise different gradients for its slot
C4_Witness ==
    \E r \in Ranks :
        /\ HasGradImage(r)
        /\ LocalBatch(r) >= 2
        /\ \A k \in Ranks : k # r => worker[k].grads_text[r][1] # worker[r].grads_text[r][1]
        /\ worker[r].grad_text[1] > worker[r].grads_text[r][1]

\* C5: when all W workers call GatherLayer.forward with same-shaped inputs,
\* every worker receives a tuple of exactly W tensors whose entry k is the
\* input of the worker of rank k; a worker's own input is at index rank.
C5_GatherRankOrder ==
    \A r \in Ranks :
        /\ HasGatheredImage(r) =>
              /\ DOMAIN worker[r].gathered_image = Ranks
              /\ Len0(worker[r].gathered_image) = world_size
              /\ \A k \in Ranks : worker[r].gathered_image[k] = worker[k].image_features
              /\ worker[r].gathered_image[r] = worker[r].image_features
        /\ HasGatheredText(r) =>
              /\ DOMAIN worker[r].gathered_text = Ranks
              /\ Len0(worker[r].gathered_text) = world_size
              /\ \A k \in Ranks : worker[r].gathered_text[k] = worker[k].text_features
              /\ worker[r].gathered_text[r] = worker[r].text_features

\* every rank holds both gathered tuples of a step whose inputs differ
\* between the ranks
C5_Witness ==
    /\ \A r \in Ranks : HasGatheredText(r)
    /\ \A r, k \in Ranks : r # k => worker[r].image_features # worker[k].image_features
    /\ \E r \in Ranks : LocalBatch(r) >= 2

(***************************************************************************)
(* Claims about CLIPWeightedLOSS.forward and the reconstruction loss       *)
(***************************************************************************)
Returned == output.op = "output"

\* the reconstructions and masked ids against which a returned loss is compared
OtherReconstructions == {args.pixel_values, Shifted(args.pixel_values, Pixels(Len0(args.pixel_values)), 1)}
OtherMaskedIds == {None, Some(Masked(args.input_ids, {<<0, 0>>}))}
OtherEmbeds == {[i \in DOMAIN nets.image_embeds |-> 1], [i \in DOMAIN nets.image_embeds |-> 2]}

\* C1: the returned 'loss' combines the reconstruction loss, the masked
\* language modeling loss and the contrastive loss: a change in any one of
\* the three component losses alone changes the returned 'loss'.
C1_LossCombinesAll ==
    Returned =>
        /\ \A r \in OtherReconstructions :
              LET o == CLIPWeightedLOSS_forward(args, [nets EXCEPT !.x_rec = r])
              IN  o.loss_recon # output.loss_recon => o.loss # output.loss
        /\ \A mi \in OtherMaskedIds :
              LET o == CLIPWeightedLOSS_forward([args EXCEPT !.masked_ids = mi], nets)
              IN  o.loss_mlm # output.loss_mlm => o.loss # output.loss
        /\ \A e \in OtherEmbeds :
              LET o == CLIPWeightedLOSS_forward(args, [nets EXCEPT !.image_embeds = e])
              IN  o.clip_loss # output.clip_loss => o.loss # output.loss

\* the pixels of the patches that the patch-level mask marks
MaskedPixels(mask, p) ==
    {q \in Pixels(Len0(mask)) : mask[q[1]][q[3] \div p][q[4] \div p] = 1}

\* the loss counts the masked patches only
MaskedOnly(img, rec, mask, p, expanded, value) ==
    LET IsMasked(i, y, x) == mask[i][y \div p][x \div p] = 1
        diff == [i \in DOMAIN img |-> [c \in DOMAIN img[i] |-> [y \in DOMAIN img[i][c] |->
                    [x \in DOMAIN img[i][c][y] |->
                        IF IsMasked(i, y, x) THEN Abs(img[i][c][y][x] - rec[i][c][y][x]) ELSE 0]]]]
        count == [i \in DOMAIN img |-> [c \in {0} |-> [y \in DOMAIN img[i][c] |->
                    [x \in DOMAIN img[i][c][y] |-> IF IsMasked(i, y, x) THEN 1 ELSE 0]]]]
        \* the reconstruction put back to the image at every unmasked pixel
        restored == [i \in DOMAIN img |-> [c \in DOMAIN img[i] |-> [y \in DOMAIN img[i][c] |->
                    [x \in DOMAIN img[i][c][y] |->
                        IF IsMasked(i, y, x) THEN rec[i][c][y][x] ELSE img[i][c][y][x]]]]]
    IN  /\ \A i \in DOMAIN img, y \in 0..(ImageSide - 1), x \in 0..(ImageSide - 1) :
              expanded[i][0][y][x] = mask[i][y \div p][x \div p]
        /\ value.num = Sum4(diff) * 100000
        /\ value.den = (Sum4(count) * 100000 + 1) * 3
        /\ Sum4(diff) = 0 => value.num = 0
        /\ ReconLoss(img, restored, mask, p).loss = value

\* C6: the reconstruction loss is the sum of |image - reconstruction| over
\* the pixels of the masked patches (every mask cell (i, j) covering the
\* pixel block of patch (i, j) in every channel) divided by the number of
\* masked pixels plus 1e-5 and by 3; a change of the reconstruction at an
\* unmasked pixel leaves it unchanged, and it is 0 when the reconstruction
\* equals the image on every masked pixel.
C6_MaskedPatchesOnly ==
    /\ Returned =>
          MaskedOnly(args.pixel_values, nets.x_rec, nets.mask, PatchSize,
                     output.mask, output.loss_recon)
    /\ (train # None /\ train.pc \in {"zero_grad", "val_meter"}) =>
          MaskedOnly(batch.img, batch.img_rec, batch.patch_mask, PatchSize,
                     batch.mask, loss)

\* a returned loss over two images, with masked and unmasked patches, a
\* wrong reconstruction on both kinds and a positive loss
C6_Witness ==
    /\ Returned
    /\ Len0(args.pixel_values) = 2
    /\ output.loss_recon.num > 0
    /\ \E q \in Pixels(2) \ MaskedPixels(nets.mask, PatchSize) :
          nets.x_rec[q[1]][q[2]][q[3]][q[4]] # args.pixel_values[q[1]][q[2]][q[3]][q[4]]
    /\ \E i \in 0..(GridSize - 1), j \in 0..(GridSize - 1) : nets.mask[0][i][j] = 0
    /\ \E i \in 0..(GridSize - 1), j \in 0..(GridSize - 1) : nets.mask[0][i][j] = 1

GivenMaskedIds == IF args.masked_ids = None THEN args.input_ids ELSE args.masked_ids.data

\* C7: for every batch element and position p the masked-language-modeling
\* label is input_ids[p] where masked_ids[p] is the mask token id 49408 and
\* -100 elsewhere; masked_ids defaults to a copy of input_ids, and the call
\* leaves input_ids as it was.
C7_MlmLabels ==
    [][(output.op = "None" /\ output'.op = "output") =>
          /\ args'.input_ids = args.input_ids
          /\ output'.masked_ids = GivenMaskedIds
          /\ \A i \in DOMAIN args.input_ids, p \in 0..(SeqLen - 1) :
                /\ output'.labels[i][p] =
                      IF GivenMaskedIds[i][p] = 49408 THEN args.input_ids[i][p] ELSE -100
                /\ output'.loss_mlm.target[i * SeqLen + p] = output'.labels[i][p]
                /\ output'.loss_mlm.input.input_ids = GivenMaskedIds
      ]_vars

\* a call with masked ids returned labels for a masked and an unmasked position
C7_Witness ==
    /\ Returned
    /\ args.masked_ids # None
    /\ \E p \in Positions(Len0(args.input_ids)) :
          /\ output.labels[p[1]][p[2]] = args.input_ids[p[1]][p[2]]
          /\ args.input_ids[p[1]][p[2]] # MASK_ID
    /\ \E p \in Positions(Len0(args.input_ids)) : output.labels[p[1]][p[2]] = IGNORE

(***************************************************************************)
(* Claims about masked_modeling                                            *)
(***************************************************************************)
RECURSIVE ExpectedLog(_)
\* what a run of e epochs logs: training in every epoch, then validation in
\* the epochs divisible by 5, then the checkpoint in those divisible by 10
ExpectedLog(e) ==
    IF e = 0 THEN << >>
    ELSE ExpectedLog(e - 1)
         \o <<[kind |-> "train", epoch |-> e]>>
         \o (IF e % 5 = 0 THEN <<[kind |-> "val", epoch |-> e]>> ELSE << >>)
         \o (IF e % 10 = 0 THEN <<[kind |-> "save", epoch |-> e]>> ELSE << >>)

\* C9: the epochs 1..E run in order; in each epoch the training pass comes
\* first, the validation pass runs in exactly the epochs divisible by 5 and
\* a checkpoint is saved in exactly the epochs divisible by 10, in the order
\* training, validation, checkpoint; every checkpoint records the epoch of
\* its writing and lies under ckpt_epoch_<epoch>.
C9_EpochSchedule ==
    LET expected == ExpectedLog(cfg.epochs)
    IN  /\ Len(log) <= Len(expected)
        /\ log = SubSeq(expected, 1, Len(log))
        /\ train.pc = "done" => log = expected
        /\ train.pc \in {"train_iter", "zero_grad", "backward", "step", "step_update", "meter"}
              => log = ExpectedLog(train.epoch - 1)
        /\ train.pc \in {"val_iter", "val_meter"}
              => /\ train.epoch % 5 = 0
                 /\ log = ExpectedLog(train.epoch - 1) \o <<[kind |-> "train", epoch |-> train.epoch]>>
        /\ \A c \in ckpts :
              /\ c.output_path = [name |-> "ckpt_epoch_", epoch |-> c.mim_checkpoint.epoch]
              /\ c.mim_checkpoint.epoch % 10 = 0
              /\ c.mim_checkpoint.optimizer.steps = c.mim_checkpoint.epoch * cfg.n_iter_per_epoch
        /\ {c.mim_checkpoint.epoch : c \in ckpts} =
              {log[i].epoch : i \in {j \in 1..Len(log) : log[j].kind = "save"}}
        /\ Cardinality(ckpts) = Cardinality({c.output_path : c \in ckpts})

\* a run of ten epochs is over: validation ran twice, one checkpoint exists
C9_Witness ==
    /\ train.pc = "done"
    /\ cfg.epochs >= 10
    /\ ckpts # {}
    /\ \E i \in 1..Len(log) : log[i] = [kind |-> "val", epoch |-> 5]
    /\ \E i \in 1..(Len(log) - 2) :
          /\ log[i] = [kind |-> "train", epoch |-> 10]
          /\ log[i + 1] = [kind |-> "val", epoch |-> 10]
          /\ log[i + 2] = [kind |-> "save", epoch |-> 10]

\* the calls of a training iteration in their order
IterationOps ==
    IF loss.num # 0
        THEN <<"zero_grad", "backward", "step", "step_update", "meter">>
        ELSE <<"zero_grad", "step", "step_update", "meter">>

\* the number of batches whose optimizer step has run
StepsDue ==
    CASE train.pc \in {"train_iter", "zero_grad", "backward", "step"} ->
            (train.epoch - 1) * cfg.n_iter_per_epoch + train.idx
      [] train.pc \in {"step_update", "meter"} ->
            (train.epoch - 1) * cfg.n_iter_per_epoch + train.idx + 1
      [] train.pc \in {"validate", "val_iter", "val_meter", "save"} ->
            train.epoch * cfg.n_iter_per_epoch
      [] OTHER -> (train.epoch - 1) * cfg.n_iter_per_epoch

\* C10: in every training iteration the order is optimizer.zero_grad, then
\* loss.backward (skipped when the loss equals 0), then optimizer.step, then
\* lr_scheduler.step_update, then the loss meter update; optimizer.step and
\* the scheduler update run exactly once per batch, also when backward is
\* skipped, and the validation pass makes no gradient update.
C10_IterationOrder ==
    /\ train.pc = "zero_grad" => ops = << >>
    /\ train.pc = "backward" => ops = SubSeq(IterationOps, 1, 1)
    /\ train.pc = "step" => ops = SubSeq(IterationOps, 1, Len(IterationOps) - 3)
    /\ train.pc = "step_update" => ops = SubSeq(IterationOps, 1, Len(IterationOps) - 2)
    /\ train.pc = "meter" => ops = SubSeq(IterationOps, 1, Len(IterationOps) - 1)
    /\ (train.pc = "train_iter" /\ train.idx > 0) => ops = IterationOps
    /\ optimizer.steps = StepsDue
    /\ lr_scheduler.calls = IF train.pc = "step_update" THEN StepsDue - 1 ELSE StepsDue
    /\ train.pc \in {"train_iter", "zero_grad", "backward", "step", "step_update", "meter"}
          => meters.loss_meter.updates = train.idx
    /\ train.pc = "val_meter" => ops = << >>
    /\ (train.pc = "val_iter" /\ train.idx > 0) => ops = <<"val_meter">>
    /\ train.pc \in {"val_iter", "val_meter"} =>
          /\ train.mode = "eval"
          /\ meters.val_loss_meter.updates = train.idx

\* an iteration whose loss was 0 is over: backward was skipped, the optimizer
\* step and the scheduler update ran
C10_Witness ==
    /\ train.pc = "train_iter"
    /\ train.idx > 0
    /\ loss.num = 0
    /\ ops = <<"zero_grad", "step", "step_update", "meter">>
    /\ optimizer.steps > 0

\* C11: the update index given to lr_scheduler.step_update grows strictly
\* over the run and stays below num_steps = epochs * n_iter_per_epoch, the
\* scheduler's t_initial.
C11_UpdateIndexInSchedule ==
    [][lr_scheduler'.calls # lr_scheduler.calls =>
          /\ lr_scheduler'.num_updates > lr_scheduler.num_updates
          /\ lr_scheduler'.num_updates < cfg.num_steps
      ]_vars

(***************************************************************************)
(* Claims about the datasets                                               *)
(***************************************************************************)
\* the max_len that a call of _get_text_segment works with
GivenMaxLen ==
    IF given.max_len.op = "None" THEN dataset.num_max_bpe_tokens ELSE given.max_len.value

\* C12: for a non-empty token list and max_len >= 2 the returned tokens have
\* length max_len, start with the BOS id 49406, carry the EOS id 49407 at
\* index num_tokens - 1 with the first max_len - 2 input tokens in order
\* between them, and the pad id 1 from index num_tokens on; padding_mask has
\* length max_len, 0 below num_tokens and 1 elsewhere; 2 < num_tokens <=
\* max_len when max_len >= 3.
C12_PadAndTruncate ==
    (data # None /\ Len0(given.text_segment) > 0 /\ GivenMaxLen >= 2) =>
        LET kept == Min(Len0(given.text_segment), GivenMaxLen - 2)
        IN  /\ data.op = "return"
            /\ DOMAIN data.tokens = 0..(GivenMaxLen - 1)
            /\ data.tokens[0] = 49406
            /\ data.num_tokens = kept + 2
            /\ data.tokens[data.num_tokens - 1] = 49407
            /\ \A i \in 0..(kept - 1) : data.tokens[i + 1] = given.text_segment[i]
            /\ \A i \in data.num_tokens..(GivenMaxLen - 1) : data.tokens[i] = 1
            /\ DOMAIN data.padding_mask = 0..(GivenMaxLen - 1)
            /\ \A i \in 0..(GivenMaxLen - 1) :
                  data.padding_mask[i] = IF i < data.num_tokens THEN 0 ELSE 1
            /\ GivenMaxLen >= 3 => (2 < data.num_tokens /\ data.num_tokens <= GivenMaxLen)

\* a call returned that had to truncate its tokens
C12_Witness ==
    /\ data # None
    /\ data.op = "return"
    /\ GivenMaxLen >= 3
    /\ Len0(given.text_segment) > GivenMaxLen - 2
    /\ data.num_tokens = GivenMaxLen

\* the first position of full_tokens that holds the EOS id
FirstEos(full_tokens) ==
    CHOOSE i \in DOMAIN full_tokens :
        /\ full_tokens[i] = 49407
        /\ \A j \in 0..(i - 1) : full_tokens[j] # 49407

\* C13: full_tokens, masked_tokens and attention_mask have length max_len;
\* at most max_len - 1 tokens are kept, so the last position is an EOS pad;
\* attention_mask is 1 on exactly the first num_tokens positions; every
\* masked_tokens[i] is full_tokens[i] or the mask id 49408; no BOS position
\* and no position at or behind the first EOS is replaced by the mask id.
C13_MaskedAligned ==
    (dataset = [op |-> "CLIPMaskDataset"] /\ data # None) =>
        LET num_tokens == Min(Len0(given.input_ids), MaskMaxLen - 1)
            positions == 0..(MaskMaxLen - 1)
        IN  /\ data.op = "data"
            /\ DOMAIN data.full_tokens = positions
            /\ DOMAIN data.masked_tokens = positions
            /\ DOMAIN data.attention_mask = positions
            /\ \A i \in positions :
                  /\ data.full_tokens[i] = IF i < num_tokens THEN given.input_ids[i] ELSE 49407
                  /\ data.attention_mask[i] = IF i < num_tokens THEN 1 ELSE 0
                  /\ data.masked_tokens[i] \in {data.full_tokens[i], 49408}
                  /\ data.full_tokens[i] = 49406 => data.masked_tokens[i] = 49406
                  /\ i >= FirstEos(data.full_tokens) =>
                        data.masked_tokens[i] = data.full_tokens[i]
            /\ data.full_tokens[MaskMaxLen - 1] = 49407

\* a truncated text came back with a token replaced by the mask id and with
\* tokens behind its first EOS
C13_Witness ==
    /\ dataset = [op |-> "CLIPMaskDataset"]
    /\ data # None
    /\ data.op = "data"
    /\ Len0(given.input_ids) > MaskMaxLen - 1
    /\ \E i \in DOMAIN data.masked_tokens :
          data.masked_tokens[i] = 49408 /\ data.full_tokens[i] # 49408
    /\ \E i \in DOMAIN data.full_tokens :
          i > FirstEos(data.full_tokens) /\ data.full_tokens[i] # 49407

Constructed == dataset # None /\ dataset.op = "FlickrDataset"

\* the positions of group g that hold the caption of line k
PlacesOf(k, g) == {j \in DOMAIN dataset.text[g] : dataset.text[g][j] = Caption(k)}

\* C14: after construction the text_segment of every line of the index file
\* is stored in self.text[image_id] and under no other index, and the
\* captions of one image keep their file order, whatever the image ids are.
C14_GroupedByImage ==
    Constructed =>
        /\ \A k \in DOMAIN dataset.items :
              /\ dataset.items[k].image_id \in DOMAIN dataset.text
              /\ PlacesOf(k, dataset.items[k].image_id) # {}
              /\ \A g \in DOMAIN dataset.text :
                    g # dataset.items[k].image_id => PlacesOf(k, g) = {}
        /\ \A k1, k2 \in DOMAIN dataset.items :
              (k1 < k2 /\ dataset.items[k1].image_id = dataset.items[k2].image_id) =>
                  \A g \in DOMAIN dataset.text :
                      \A j1 \in PlacesOf(k1, g), j2 \in PlacesOf(k2, g) : j1 < j2

\* the lines of the index file whose caption gives the returned tokens
LinesOf(tokens) ==
    {k \in DOMAIN dataset.items :
        tokens = FlickrDataset_get_text_segment(dataset, Caption(k), None).tokens}

\* C15: __getitem__ succeeds for every index below len(dataset) and returns
\* the tokens and padding masks of the two captions at two distinct
\* positions, drawn from 0..4, of self.text[index]; the two captions belong
\* to the same image.
C15_TwoCaptionsOfOneImage ==
    (data # None /\ data.op = "getitem") =>
        LET item == dataset.text[data.index]
            r == data.random_numbers
        IN  /\ data.result.op = "data"
            /\ r[0] # r[1]
            /\ {r[0], r[1]} \subseteq 0..4
            /\ {r[0], r[1]} \subseteq DOMAIN item
            /\ LET first == FlickrDataset_get_text_segment(dataset, item[r[0]], None)
                   second == FlickrDataset_get_text_segment(dataset, item[r[1]], None)
               IN  /\ data.result.language_tokens0 = first.tokens
                   /\ data.result.padding_mask0 = first.padding_mask
                   /\ data.result.language_tokens1 = second.tokens
                   /\ data.result.padding_mask1 = second.padding_mask
            /\ \A k0 \in LinesOf(data.result.language_tokens0),
                  k1 \in LinesOf(data.result.language_tokens1) :
                  dataset.items[k0].image_id = dataset.items[k1].image_id

=============================================================================
